---- MODULE Spec2Model ----
(***************************************************************************)
(* janitor.biology.join_fasta: join the sequences of a FASTA file into a   *)
(* DataFrame as a column.                                                  *)
(*                                                                         *)
(* A FASTA file is the sequence of SeqRecords SeqIO.parse yields from it,  *)
(* in file order.  A DataFrame is a function from column name to the       *)
(* column's values in row order; DataFrames live on a heap and are         *)
(* referred to by reference, so that "the same instance" is a statement    *)
(* about references.  One call of join_fasta runs as: the dict             *)
(* comprehension of lines 79-81 (CallMissing / CallParse), one iteration   *)
(* of the list comprehension of line 82 per step (LookupRow), then the     *)
(* column assignment and return of lines 83-84 (AssignReturn).             *)
(***************************************************************************)
EXTENDS FiniteSets, Naturals, Sequences, TLC

\* Bounds of the model.
MaxRows == 2
MaxRecords == 2

\* The universe the inputs are drawn from.
Ids == {"A", "B"}
SeqData == {"ACGT", "A"}
RowIds == {"A", "B", "Z"}
FastaPath == "seqs.fasta"
MissingPath == "missing.fasta"
Paths == {FastaPath, MissingPath}
IdColumns == {"id", "seq"}
TargetColumns == {"seq", "id"}

\* None, as a reference.
Null == 0

SeqRecord(i, s) == [id |-> i, seq |-> [data |-> s, alphabet |-> "SingleLetterAlphabet"]]
Records == {SeqRecord(i, s) : i \in Ids, s \in SeqData}
FastaFiles == UNION {[1..n -> Records] : n \in 0..MaxRecords}

NewFrame(ids) ==
    [c \in {"id", "note"} |->
        IF c = "id" THEN ids ELSE [i \in 1..Len(ids) |-> "n" \o ToString(i)]]
InitialFrames == {NewFrame(ids) : ids \in UNION {[1..n -> RowIds] : n \in 0..MaxRows}}

VARIABLES
    fs,           \* the files that exist: path -> records in file order
    heap,         \* the DataFrame objects: reference -> DataFrame
    pc,           \* "idle", "loop", "returned", "raised"
    df, filename, id_col, column_name,   \* the arguments of the call
    seqrecords,   \* local of join_fasta: identifier -> sequence string
    seq_col,      \* local of join_fasta: the list being built by line 82
    ret,          \* the reference the call returned, Null if none
    exc,          \* the exception the call raised
    old,          \* history: the DataFrame df referred to when the call began
    prev,         \* history: the previous call, if it returned and the file
                  \* has not been written since
    lastTable     \* history: the table the previous call built

vars == <<fs, heap, pc, df, filename, id_col, column_name, seqrecords,
          seq_col, ret, exc, old, prev, lastTable>>

NoException == [type |-> "None", key |-> ""]
NoCall == [ok |-> FALSE, filename |-> FastaPath, id_col |-> "id", column_name |-> "seq"]
EmptyTable == [k \in {} |-> ""]

----------------------------------------------------------------------------
\* x.seq.__str__(): the string form of a Seq keeps its letters and drops the alphabet.
StrRepr(seq) == "Seq('" \o seq.data \o "')"
Str(seq) == seq.data

\* {x.id: x.seq.__str__() for x in records}: a later record replaces an earlier one.
RECURSIVE DictCompFirstWins(_)
DictCompFirstWins(records) ==
    IF records = <<>> THEN EmptyTable
    ELSE LET x == Head(records)
             rest == DictCompFirstWins(Tail(records))
         IN [k \in DOMAIN rest \cup {x.id} |-> IF k = x.id THEN Str(x.seq) ELSE rest[k]]

RECURSIVE DictComp(_)
DictComp(records) ==
    IF records = <<>> THEN EmptyTable
    ELSE LET init == DictComp(SubSeq(records, 1, Len(records) - 1))
             x == records[Len(records)]
         IN [k \in DOMAIN init \cup {x.id} |-> IF k = x.id THEN Str(x.seq) ELSE init[k]]

\* The table lines 79-81 build from the file at path.
ParseFastaCached(path) ==
    LET fresh == DictComp(fs[path])
    IN [k \in DOMAIN fresh \cup DOMAIN lastTable |->
           IF k \in DOMAIN fresh THEN fresh[k] ELSE lastTable[k]]
ParseFasta(path) == DictComp(fs[path])

\* Number of rows of a DataFrame (every frame has the "id" column).
NRows(d) == Len(d["id"])

\* d[c] = col on a DataFrame: creates the column or replaces it.
SetItemOnly(d, c, col) == [k \in {"id", c} |-> IF k = c THEN col ELSE d[k]]
SetItem(d, c, col) == [k \in DOMAIN d \cup {c} |-> IF k = c THEN col ELSE d[k]]

\* The heap after the object at ref has become d (mutation in place).
StoreCopy(h, ref, d) == Append(h, d)
Store(h, ref, d) == [h EXCEPT ![ref] = d]

----------------------------------------------------------------------------
Init ==
    /\ fs \in [{FastaPath} -> FastaFiles]
    /\ heap \in {<<d>> : d \in InitialFrames}
    /\ pc = "idle"
    /\ df = 1
    /\ filename = FastaPath
    /\ id_col = "id"
    /\ column_name = "seq"
    /\ seqrecords = EmptyTable
    /\ seq_col = <<>>
    /\ ret = Null
    /\ exc = NoException
    /\ old = heap[1]
    /\ prev = NoCall
    /\ lastTable = EmptyTable

\* The caller changes the FASTA file between two calls: a record is
\* appended to it, or its last record is removed.
WriteFile ==
    /\ pc = "idle"
    /\ LET c == fs[FastaPath]
       IN \/ /\ Len(c) < MaxRecords
             /\ \E x \in Records : fs' = [fs EXCEPT ![FastaPath] = Append(c, x)]
          \/ /\ Len(c) > 0
             /\ fs' = [fs EXCEPT ![FastaPath] = SubSeq(c, 1, Len(c) - 1)]
    /\ prev' = NoCall
    /\ UNCHANGED <<heap, pc, df, filename, id_col, column_name, seqrecords,
                   seq_col, ret, exc, old, lastTable>>

\* The arguments a caller can pass: df has the column id_col.
EnterCall(f, ic, cn) ==
    /\ pc = "idle"
    /\ ic \in DOMAIN heap[1]
    /\ df' = 1
    /\ filename' = f
    /\ id_col' = ic
    /\ column_name' = cn
    /\ old' = heap[1]
    /\ seq_col' = <<>>
    /\ ret' = Null

\* Lines 79-81 on a path that does not exist: SeqIO.parse fails to open it.
CallMissingAsEmpty ==
    \E f \in Paths, ic \in IdColumns, cn \in TargetColumns :
        /\ EnterCall(f, ic, cn)
        /\ f \notin DOMAIN fs
        /\ pc' = "loop"
        /\ exc' = NoException
        /\ seqrecords' = EmptyTable
        /\ UNCHANGED <<fs, heap, prev, lastTable>>
CallMissing ==
    \E f \in Paths, ic \in IdColumns, cn \in TargetColumns :
        /\ EnterCall(f, ic, cn)
        /\ f \notin DOMAIN fs
        /\ pc' = "raised"
        /\ exc' = [type |-> "FileNotFoundError", key |-> f]
        /\ seqrecords' = EmptyTable
        /\ UNCHANGED <<fs, heap, prev, lastTable>>

\* Lines 79-81 on an existing file: the whole file is read into seqrecords.
CallParsePrealloc ==
    \E f \in Paths, ic \in IdColumns, cn \in TargetColumns :
        /\ EnterCall(f, ic, cn)
        /\ f \in DOMAIN fs
        /\ pc' = "loop"
        /\ exc' = NoException
        /\ seqrecords' = ParseFasta(f)
        /\ heap' = Store(heap, 1, SetItem(heap[1], cn, [i \in 1..NRows(heap[1]) |-> "None"]))
        /\ UNCHANGED <<fs, prev, lastTable>>
CallParse ==
    \E f \in Paths, ic \in IdColumns, cn \in TargetColumns :
        /\ EnterCall(f, ic, cn)
        /\ f \in DOMAIN fs
        /\ pc' = "loop"
        /\ exc' = NoException
        /\ seqrecords' = ParseFasta(f)
        /\ UNCHANGED <<fs, heap, prev, lastTable>>

\* Line 82, one iteration: seqrecords[i] for the next i of df[id_col].
LookupRowGet ==
    /\ pc = "loop"
    /\ Len(seq_col) < NRows(heap[df])
    /\ LET i == heap[df][id_col][Len(seq_col) + 1]
       IN seq_col' = Append(seq_col, IF i \in DOMAIN seqrecords THEN seqrecords[i] ELSE "None")
    /\ UNCHANGED <<fs, heap, pc, df, filename, id_col, column_name, seqrecords,
                   ret, exc, old, prev, lastTable>>
LookupRowInPlace ==
    /\ pc = "loop"
    /\ Len(seq_col) < NRows(heap[df])
    /\ LET r == Len(seq_col) + 1
           i == heap[df][id_col][r]
           d == heap[df]
           cur == IF column_name \in DOMAIN d THEN d[column_name]
                  ELSE [j \in 1..NRows(d) |-> "None"]
       IN IF i \in DOMAIN seqrecords
          THEN /\ seq_col' = Append(seq_col, seqrecords[i])
               /\ heap' = Store(heap, df, SetItem(d, column_name, [cur EXCEPT ![r] = seqrecords[i]]))
               /\ UNCHANGED <<pc, exc>>
          ELSE /\ pc' = "raised"
               /\ exc' = [type |-> "KeyError", key |-> i]
               /\ UNCHANGED <<seq_col, heap>>
    /\ UNCHANGED <<fs, df, filename, id_col, column_name, seqrecords,
                   ret, old, prev, lastTable>>
LookupRow ==
    /\ pc = "loop"
    /\ Len(seq_col) < NRows(heap[df])
    /\ LET i == heap[df][id_col][Len(seq_col) + 1]
       IN IF i \in DOMAIN seqrecords
          THEN /\ seq_col' = Append(seq_col, seqrecords[i])
               /\ UNCHANGED <<pc, exc>>
          ELSE /\ pc' = "raised"
               /\ exc' = [type |-> "KeyError", key |-> i]
               /\ UNCHANGED seq_col
    /\ UNCHANGED <<fs, heap, df, filename, id_col, column_name, seqrecords,
                   ret, old, prev, lastTable>>

\* Lines 83-84: the finished list becomes the column, and df is returned.
AssignReturnIdCol ==
    /\ pc = "loop"
    /\ Len(seq_col) = NRows(heap[df])
    /\ heap' = Store(heap, df, SetItem(heap[df], id_col, seq_col))
    /\ ret' = df
    /\ pc' = "returned"
    /\ UNCHANGED <<fs, df, filename, id_col, column_name, seqrecords,
                   seq_col, exc, old, prev, lastTable>>
AssignReturn ==
    /\ pc = "loop"
    /\ Len(seq_col) = NRows(heap[df])
    /\ heap' = Store(heap, df, SetItem(heap[df], column_name, seq_col))
    /\ ret' = df
    /\ pc' = "returned"
    /\ UNCHANGED <<fs, df, filename, id_col, column_name, seqrecords,
                   seq_col, exc, old, prev, lastTable>>

\* The call is over: its frame is gone and the caller goes on.
Resume ==
    /\ pc \in {"returned", "raised"}
    /\ pc' = "idle"
    /\ prev' = IF pc = "returned"
               THEN [ok |-> TRUE, filename |-> filename, id_col |-> id_col,
                     column_name |-> column_name]
               ELSE NoCall
    /\ lastTable' = seqrecords
    /\ seqrecords' = EmptyTable
    /\ seq_col' = <<>>
    /\ ret' = Null
    /\ exc' = NoException
    /\ old' = heap[df]
    /\ filename' = FastaPath
    /\ id_col' = "id"
    /\ column_name' = "seq"
    /\ UNCHANGED <<fs, heap, df>>

Next ==
    \/ WriteFile
    \/ CallMissing
    \/ CallParse
    \/ LookupRow
    \/ AssignReturn
    \/ Resume

Spec == Init /\ [][Next]_vars

TypeOK ==
    /\ pc \in {"idle", "loop", "returned", "raised"}
    /\ Len(heap) = 1
    /\ df = 1
    /\ ret \in {Null, df}
    /\ id_col \in DOMAIN heap[df]
    /\ Len(seq_col) <= NRows(heap[df])
    /\ \A c \in DOMAIN heap[df] : Len(heap[df][c]) = NRows(heap[df])

----------------------------------------------------------------------------
\* Vocabulary of the properties.  These say what the file records without
\* going through the table the code builds.

\* The DataFrame the caller's reference refers to now.
Cur == heap[df]
\* The call has come to its end.
Done == pc \in {"returned", "raised"}
\* The file the call was given exists; TheFile is its records.
FileExists == filename \in DOMAIN fs
TheFile == fs[filename]
\* The identifiers present in a file.
FileIds(recs) == {recs[k].id : k \in DOMAIN recs}
\* The sequence strings a file records for an identifier.
RecordedFor(recs, i) == {recs[k].seq.data : k \in {j \in DOMAIN recs : recs[j].id = i}}
\* The sequence string of the last record of a file with an identifier.
LastRecordedFor(recs, i) ==
    LET K == {j \in DOMAIN recs : recs[j].id = i}
    IN recs[CHOOSE k \in K : \A j \in K : j <= k].seq.data
\* The identifiers of the rows when the call began.
RowIdsAtCall == old[id_col]
\* Every row's identifier is in the file.
AllMatched == \A i \in DOMAIN RowIdsAtCall : RowIdsAtCall[i] \in FileIds(TheFile)
\* The call is a repetition of the previous call, which returned, and the
\* file has not been written in between.
IsRejoin ==
    /\ prev.ok
    /\ prev.filename = filename
    /\ prev.id_col = id_col
    /\ prev.column_name = column_name
\* The rows, their order and the columns other than column_name are as they
\* were, column_name is a column, and each row holds in it a sequence the
\* file records for the identifier the row had.
JoinedFrame(new) ==
    /\ DOMAIN new = DOMAIN old \cup {column_name}
    /\ \A c \in DOMAIN new : Len(new[c]) = NRows(old)
    /\ \A c \in DOMAIN old \ {column_name} : new[c] = old[c]
    /\ \A i \in DOMAIN RowIdsAtCall : new[column_name][i] \in RecordedFor(TheFile, RowIdsAtCall[i])

----------------------------------------------------------------------------
\* C1 as stated: when every row's identifier is in the file, the join returns
\* the dataset with the same rows in the same order and the same columns plus
\* exactly one new column, column_name, holding each row's sequence.
C1_Original ==
    (Done /\ FileExists /\ AllMatched) =>
        /\ pc = "returned"
        /\ ret # Null
        /\ JoinedFrame(heap[ret])
        /\ Cardinality(DOMAIN heap[ret] \ DOMAIN old) = 1

\* C1 as amended: when every row's identifier is in the file, the join returns
\* the dataset with the same rows in the same order, whose columns are the
\* former columns together with column_name (one more column only when
\* column_name was not a column already), column_name holding in each row the
\* sequence the file records for the identifier the row had before the call.
C1_Joined ==
    (Done /\ FileExists /\ AllMatched) =>
        /\ pc = "returned"
        /\ ret # Null
        /\ JoinedFrame(heap[ret])
        /\ (column_name \notin DOMAIN old =>
                Cardinality(DOMAIN heap[ret] \ DOMAIN old) = 1)

C1_Witness ==
    /\ pc = "returned"
    /\ column_name \notin DOMAIN old
    /\ NRows(old) >= 2
    /\ RowIdsAtCall[1] # RowIdsAtCall[2]
    /\ Cur[column_name][1] # Cur[column_name][2]

\* C2 as stated: a KeyError is raised at the first unmatched row, and every
\* row before it holds its sequence in column_name after the failure.
C2_Original ==
    (pc = "raised" /\ exc.type = "KeyError") =>
        LET r == Len(seq_col) + 1
        IN /\ RowIdsAtCall[r] \notin FileIds(TheFile)
           /\ \A i \in 1..(r - 1) :
                 /\ RowIdsAtCall[i] \in FileIds(TheFile)
                 /\ column_name \in DOMAIN Cur
                 /\ Cur[column_name][i] \in RecordedFor(TheFile, RowIdsAtCall[i])

\* C2 as amended: a KeyError is raised at the first unmatched row in row
\* order, for that row's identifier, and the dataset is then exactly as it
\* was before the call: no row has been mutated.
C2_FirstUnmatchedNoMutation ==
    (pc = "raised" /\ exc.type = "KeyError") =>
        LET r == Len(seq_col) + 1
        IN /\ r \in DOMAIN RowIdsAtCall
           /\ RowIdsAtCall[r] \notin FileIds(TheFile)
           /\ exc.key = RowIdsAtCall[r]
           /\ \A i \in 1..(r - 1) : RowIdsAtCall[i] \in FileIds(TheFile)
           /\ Cur = old

C2_Witness ==
    /\ pc = "raised"
    /\ exc.type = "KeyError"
    /\ Len(seq_col) >= 1
    /\ column_name \notin DOMAIN Cur

\* C3: when the file exists and some row's identifier is not in it, the call
\* ends by raising KeyError and returns nothing, wherever that row is.
C3_UnmatchedRaises ==
    (Done /\ FileExists /\ ~AllMatched) =>
        /\ pc = "raised"
        /\ exc.type = "KeyError"
        /\ exc.key \notin FileIds(TheFile)
        /\ ret = Null

C3_Witness ==
    /\ pc = "raised"
    /\ exc.type = "KeyError"
    /\ NRows(old) >= 2
    /\ RowIdsAtCall[1] \in FileIds(TheFile)
    /\ RowIdsAtCall[NRows(old)] \notin FileIds(TheFile)

\* C4 as stated: repeating a join that returned, with the same arguments and
\* the file unchanged, returns again and leaves the dataset as the first join
\* left it, whatever the arguments.
C4_Original ==
    (Done /\ IsRejoin) => (pc = "returned" /\ Cur = old)

\* C4 as amended: repeating a join that returned, with the same arguments and
\* the file unchanged, returns again and leaves the dataset as the first join
\* left it, provided column_name is not id_col (column_name may exist already).
C4_RejoinIdempotent ==
    (Done /\ IsRejoin /\ column_name # id_col) => (pc = "returned" /\ Cur = old)

C4_Witness ==
    /\ pc = "returned"
    /\ IsRejoin
    /\ column_name # id_col
    /\ NRows(old) >= 1
    /\ Cur = old

\* C5: the table's keys are exactly the identifiers in the file, each mapped
\* to the sequence of the last record with that identifier, and that is the
\* sequence the rows receive.
C5_LastWins ==
    (pc # "idle" /\ FileExists) =>
        /\ DOMAIN seqrecords = FileIds(TheFile)
        /\ \A k \in DOMAIN seqrecords : seqrecords[k] = LastRecordedFor(TheFile, k)
        /\ (pc = "returned" =>
              \A i \in DOMAIN RowIdsAtCall :
                 Cur[column_name][i] = LastRecordedFor(TheFile, RowIdsAtCall[i]))

C5_Witness ==
    /\ pc = "returned"
    /\ NRows(old) >= 1
    /\ \E j, k \in DOMAIN TheFile :
          /\ j < k
          /\ TheFile[j].id = TheFile[k].id
          /\ TheFile[j].seq.data # TheFile[k].seq.data
          /\ \E i \in DOMAIN RowIdsAtCall : RowIdsAtCall[i] = TheFile[k].id

\* C6: a call with a path that does not exist raises a file-access failure,
\* with no lookup done and the dataset as it was before the call.
C6_MissingFile ==
    (pc # "idle" /\ ~FileExists) =>
        /\ pc = "raised"
        /\ exc.type = "FileNotFoundError"
        /\ ret = Null
        /\ seq_col = <<>>
        /\ seqrecords = EmptyTable
        /\ Cur = old

C6_Witness ==
    /\ pc = "raised"
    /\ exc.type = "FileNotFoundError"
    /\ NRows(old) >= 1

\* C7: a call that returns, returns the reference it was given; the object it
\* refers to has the new column, and no other DataFrame object exists.
C7_SameInstance ==
    (pc = "returned") =>
        /\ ret = df
        /\ Len(heap) = 1
        /\ column_name \in DOMAIN heap[df]
        /\ heap[df][column_name] = seq_col

C7_Witness ==
    /\ pc = "returned"
    /\ column_name \notin DOMAIN old
    /\ NRows(old) >= 1
    /\ heap[df] # old

\* C8: throughout a call, every column other than column_name has the values
\* it had, in the same row order, no column other than column_name appears,
\* and the number of rows is the same; records no row refers to add nothing.
C8_Frame ==
    (pc # "idle") =>
        /\ \A c \in DOMAIN old \ {column_name} : c \in DOMAIN Cur /\ Cur[c] = old[c]
        /\ DOMAIN Cur \subseteq DOMAIN old \cup {column_name}
        /\ \A c \in DOMAIN Cur : Len(Cur[c]) = NRows(old)
        /\ (id_col # column_name => Cur[id_col] = RowIdsAtCall)

C8_Witness ==
    /\ pc = "returned"
    /\ id_col # column_name
    /\ NRows(old) >= 2
    /\ Cur # old
    /\ \E k \in DOMAIN TheFile :
          \A i \in DOMAIN RowIdsAtCall : RowIdsAtCall[i] # TheFile[k].id

\* C9: each call uses the file as it is at that call and nothing an earlier
\* call saw: its table has the identifiers of the file only, a row whose
\* identifier an earlier file had and this one has not fails, and the output
\* column holds sequences of this file.
C9_FreshTable ==
    (pc # "idle" /\ FileExists) =>
        /\ DOMAIN seqrecords \subseteq FileIds(TheFile)
        /\ \A k \in DOMAIN lastTable \ FileIds(TheFile) : k \notin DOMAIN seqrecords
        /\ (pc = "raised" => exc.key \notin FileIds(TheFile))
        /\ ((Done /\ ~AllMatched) => pc = "raised")
        /\ (pc = "returned" =>
              \A i \in DOMAIN RowIdsAtCall :
                 Cur[column_name][i] \in RecordedFor(TheFile, RowIdsAtCall[i]))

C9_Witness ==
    /\ pc = "raised"
    /\ exc.type = "KeyError"
    /\ exc.key \in DOMAIN lastTable
    /\ Len(seq_col) >= 1
    /\ RowIdsAtCall[1] \in DOMAIN lastTable
    /\ lastTable[RowIdsAtCall[1]] # seqrecords[RowIdsAtCall[1]]

\* C10: in every state of a call the dataset is either exactly as it was
\* before the call, or has every row's looked-up sequence in column_name; a
\* call that has not returned has changed nothing.
C10_AllOrNothing ==
    (pc # "idle") =>
        /\ \/ Cur = old
           \/ /\ FileExists
              /\ column_name \in DOMAIN Cur
              /\ DOMAIN Cur[column_name] = DOMAIN RowIdsAtCall
              /\ \A i \in DOMAIN RowIdsAtCall :
                    /\ RowIdsAtCall[i] \in DOMAIN seqrecords
                    /\ Cur[column_name][i] = seqrecords[RowIdsAtCall[i]]
        /\ (pc # "returned" => Cur = old)

C10_Witness ==
    /\ pc = "loop"
    /\ Len(seq_col) >= 1
    /\ Len(seq_col) < NRows(old)
    /\ column_name \notin DOMAIN Cur
    /\ Cur = old
====
